---- MODULE Spec2Model ----
(***************************************************************************)
(* The page of src/game.js as a state machine: the menu, the orientation   *)
(* lock, the Leli game (the globals and gameLoop of src/game.js), the      *)
(* Flappy game (FlappyGame, src/unnamed/part_000) and Angry Leli (the      *)
(* AngryLeliGame object).                                                  *)
(*                                                                         *)
(* Numbers.  The program computes in IEEE doubles; the model computes in   *)
(* fixed point and truncates toward zero:                                  *)
(*   lengths and positions  in 1/10 pixel           (Px(18) = 180)         *)
(*   velocities             in 1/10 pixel / second                         *)
(*   times                  in milliseconds                                *)
(*   obstacle health        in 1/500                (Health(5) = 2500)     *)
(*   an angle               as its direction, [c |-> 1000*cos, s |->       *)
(*                          1000*sin], which is what Math.atan2 followed   *)
(*                          by Math.cos / Math.sin computes                *)
(* The canvas keeps one size (CanvasW x CanvasH pixels), so groundY and    *)
(* slingAnchor, which only onResize writes, are definitions.  The Leli and  *)
(* Flappy games compute in whole pixels, pixels / second and milliseconds. *)
(***************************************************************************)
EXTENDS Integers, Sequences, FiniteSets, TLC

VARIABLES
    currentGame,      \* game.js:634   NULL, "leli", "flappy" or "angry"
    isRunning,        \* AngryLeliGame.isRunning
    score,            \* AngryLeliGame.score
    birdsRemaining,   \* AngryLeliGame.birdsRemaining
    birds,            \* AngryLeliGame.birds: the launched birds, a sequence
    pigs,             \* AngryLeliGame.pigs
    obstacles,        \* AngryLeliGame.obstacles
    currentLevel,     \* AngryLeliGame.currentLevel
    particles,        \* AngryLeliGame.particles: the remaining lifetimes in the list
    currentBird,      \* AngryLeliGame.currentBird: the bird on the sling, or NoBird
    isDragging,       \* AngryLeliGame.isDragging
    pull,             \* AngryLeliGame.pull: [dist, angle]
    nextBirdTimer,    \* AngryLeliGame.nextBirdTimer (ms)
    sinceLaunch,      \* history: the frame time since this game's last launch (ms),
                      \* counted up to nextBirdDelay
    gameOverTitle,    \* text of '#angry-game-over h1', "" until gameOver writes it
    gameOverShown,    \* '#angry-game-over' is not hidden
    welcomeShown,     \* '#angry-welcome' is not hidden
    portrait,         \* what needsLandscapeForAngry() returns: a mobile device held upright
    orientationBlocked, \* game.js:636
    pendingAngryStart,  \* game.js:637
    isGameStarted,    \* game.js:8
    isGameOver,       \* game.js:7
    leli,             \* game.js:6-9, 285: [score, player, spawner, projectiles, particles],
                      \* and as history the frames that gameLoop has updated
    awaiting,         \* the calls of startGame and resetGame that wait in ensureAudioReady()
    flappy,           \* FlappyGame: [isRunning, score, bird, pipes, pipeTimer]
    screens,          \* the elements of the Leli and Flappy games that are not hidden
    starts,           \* history: the calls of AngryLeliGame.start() the last handler made
    pointer,          \* history: position of the last pointer event handled
    op,               \* history: the handler that ran last
    frame             \* history: what the last update did (contacts, level advance)

vars == << currentGame, isRunning, score, birdsRemaining, birds, pigs, obstacles,
           currentLevel, particles, currentBird, isDragging, pull, nextBirdTimer,
           sinceLaunch,
           gameOverTitle, gameOverShown, welcomeShown, portrait, orientationBlocked,
           pendingAngryStart, isGameStarted, isGameOver, leli, awaiting, flappy,
           screens, starts, pointer, op, frame >>

\* the variables of the orientation lock
lockVars == << portrait, orientationBlocked, pendingAngryStart >>

\* the variables of the Leli game
leliVars == << isGameStarted, isGameOver, leli, awaiting >>

\* the variables of AngryLeliGame
angryVars == << isRunning, score, birdsRemaining, birds, pigs, obstacles, currentLevel,
                particles, currentBird, isDragging, pull, nextBirdTimer, sinceLaunch,
                gameOverTitle, gameOverShown >>

\* null, for currentGame
NULL == "null"

\* null, for currentBird
NoBird == [x |-> "null"]

(***************************************************************************)
(* Fixed-point helpers                                                     *)
(***************************************************************************)
Px(n) == n * 10

Health(n) == n * 500

Abs(a) == IF a < 0 THEN -a ELSE a

Min(a, b) == IF a < b THEN a ELSE b

Max(a, b) == IF a > b THEN a ELSE b

\* a / b truncated toward zero (b > 0)
Quot(a, b) == IF a >= 0 THEN a \div b ELSE -((-a) \div b)

RECURSIVE SqrtBetween(_, _, _)
SqrtBetween(n, lo, hi) ==
    IF lo >= hi THEN lo
    ELSE LET mid == (lo + hi + 1) \div 2
         IN  IF mid * mid <= n THEN SqrtBetween(n, mid, hi)
             ELSE SqrtBetween(n, lo, mid - 1)

\* Math.sqrt, truncated
Sqrt(n) == SqrtBetween(n, 0, 46340)

\* Math.hypot, truncated
Hypot(dx, dy) == Sqrt(dx * dx + dy * dy)

\* Math.atan2(dy, dx) as a direction; atan2(0, 0) is the angle 0
Atan2(dy, dx) ==
    LET h == Hypot(dx, dy)
    IN  IF h = 0 THEN [c |-> 1000, s |-> 0]
        ELSE [c |-> Quot(dx * 1000, h), s |-> Quot(dy * 1000, h)]

Cos(angle) == angle.c

Sin(angle) == angle.s

\* the angle -a
Neg(angle) == [c |-> angle.c, s |-> -angle.s]

\* -Math.PI / 4
MinusQuarterPi == [c |-> 707, s |-> -707]

(***************************************************************************)
(* Geometry that onResize fixes for the canvas                             *)
(***************************************************************************)
CanvasW == 1000

CanvasH == 600

maxBirds == 5

maxPull == 250

\* this.nextBirdTimer = 0.5 of launchCurrentBird, in ms
nextBirdDelay == 500

birdRadius == 18

pigRadius == 16

groundY == Px(CanvasH) - Px(80)

slingAnchor ==
    [x |-> Max(Px(200), Min(Px(380), Quot(Px(CanvasW) * 20, 100))),
     y |-> groundY - Px(60)]

(***************************************************************************)
(* The AngryLeliGame object as a record, so that a method is an operator   *)
(* from the object before the call to the object after it                  *)
(***************************************************************************)
This ==
    [isRunning |-> isRunning, score |-> score, birdsRemaining |-> birdsRemaining,
     birds |-> birds, pigs |-> pigs, obstacles |-> obstacles,
     currentLevel |-> currentLevel, particles |-> particles,
     currentBird |-> currentBird, isDragging |-> isDragging, pull |-> pull,
     nextBirdTimer |-> nextBirdTimer, sinceLaunch |-> sinceLaunch,
     gameOverTitle |-> gameOverTitle,
     gameOverShown |-> gameOverShown]

Becomes(g) ==
    /\ isRunning' = g.isRunning
    /\ score' = g.score
    /\ birdsRemaining' = g.birdsRemaining
    /\ birds' = g.birds
    /\ pigs' = g.pigs
    /\ obstacles' = g.obstacles
    /\ currentLevel' = g.currentLevel
    /\ particles' = g.particles
    /\ currentBird' = g.currentBird
    /\ isDragging' = g.isDragging
    /\ pull' = g.pull
    /\ nextBirdTimer' = g.nextBirdTimer
    /\ sinceLaunch' = g.sinceLaunch
    /\ gameOverTitle' = g.gameOverTitle
    /\ gameOverShown' = g.gameOverShown

\* the history of a state that no update produced
NoFrame == [level |-> 0, contacts |-> << >>, birds |-> << >>, pigsAliveAtCheck |-> TRUE,
            before |-> [birdsRemaining |-> 0, onSling |-> FALSE, score |-> 0,
                        particles |-> {}, inFlight |-> 0]]

(***************************************************************************)
(* Levels                                                                  *)
(***************************************************************************)
Pig(x, y) == [x |-> x, y |-> y, r |-> Px(pigRadius)]

Block(x, y, w, h, health) == [x |-> x, y |-> y, w |-> w, h |-> h, health |-> health]

\* the three layouts of buildLevel, before normalisation
Layouts ==
    LET g == groundY
        r == Px(pigRadius)
        baseX == Max(Px(200), Min(Px(CanvasW) - Px(200),
                     Max(Quot(Px(CanvasW) * 60, 100), slingAnchor.x + Px(340))))
        platformH == Px(18)
        tallH == Px(90)
    IN  << [pigs |-> << Pig(baseX, g - r),
                        Pig(baseX + Px(60), g - r),
                        Pig(baseX + Px(30), g - r * 3),
                        Pig(baseX + Px(100), g - r * 2) >>,
            obstacles |-> << >>],
           [pigs |-> << Pig(baseX - Px(10), g - r),
                        Pig(baseX + Px(70), g - r),
                        Pig(baseX + Px(150), g - r),
                        Pig(baseX + Px(40), g - tallH - r),
                        Pig(baseX + Px(120), g - tallH - platformH - Quot(r * 13, 10)) >>,
            obstacles |-> <<
                Block(baseX - Px(60), g - platformH, Px(220), platformH, Health(5)),
                Block(baseX - Px(60), g - platformH - tallH, Px(24), tallH, Health(4)),
                Block(baseX + Px(136), g - platformH - tallH, Px(24), tallH, Health(4)),
                Block(baseX - Px(40), g - platformH - tallH - platformH, Px(240),
                      platformH, Health(5)) >>],
           [pigs |-> << Pig(baseX + Px(10), g - r),
                        Pig(baseX + Px(80), g - r),
                        Pig(baseX + Px(150), g - r),
                        Pig(baseX + Px(70), g - Px(70) - r),
                        Pig(baseX + Px(120), g - Px(70) - platformH - Quot(r * 15, 10)) >>,
            obstacles |-> <<
                Block(baseX - Px(30), g - platformH, Px(240), platformH, Health(5)),
                Block(baseX, g - platformH - Px(70), Px(20), Px(70), Health(4)),
                Block(baseX + Px(190), g - platformH - Px(70), Px(20), Px(70), Health(4)),
                Block(baseX - Px(10), g - platformH - Px(70), Px(240), Px(16), Health(4)),
                Block(baseX + Px(60), g - platformH - Px(70) - Px(70), Px(120), Px(16),
                      Health(3)) >>] >>

\* buildLevel: the layout levelIndex % 3, every pig and obstacle alive.  An
\* obstacle also carries history fields: id (its place in the layout) and
\* contactFrames (the updates in which a bird touched it).
buildLevel(levelIndex) ==
    LET layout == Layouts[(levelIndex % Len(Layouts)) + 1]
    IN  [pigs |-> [i \in 1..Len(layout.pigs) |->
                     [x |-> layout.pigs[i].x, y |-> layout.pigs[i].y,
                      r |-> layout.pigs[i].r, alive |-> TRUE]],
         obstacles |-> [i \in 1..Len(layout.obstacles) |->
                     LET o == layout.obstacles[i]
                     IN  [x |-> o.x, y |-> o.y, w |-> o.w, h |-> o.h,
                          alive |-> TRUE,
                          health |-> IF o.health = 0 THEN Health(3) ELSE o.health,
                          id |-> i, contactFrames |-> 0]]]

prepareNextBird(g) ==
    IF g.birdsRemaining <= 0 THEN g
    ELSE [g EXCEPT
            !.currentBird = [x |-> slingAnchor.x, y |-> slingAnchor.y,
                             vx |-> 0, vy |-> 0, r |-> Px(birdRadius),
                             launched |-> FALSE, active |-> TRUE, restTime |-> 0,
                             groundRun |-> 0],
            !.pull = [dist |-> 0, angle |-> MinusQuarterPi],
            !.birdsRemaining = g.birdsRemaining - 1]

loadLevel(g, levelIndex) ==
    LET layout == buildLevel(levelIndex)
    IN  prepareNextBird([g EXCEPT !.currentLevel = levelIndex,
                                  !.pigs = layout.pigs,
                                  !.obstacles = layout.obstacles,
                                  !.particles = {},
                                  !.birds = << >>,
                                  !.currentBird = NoBird,
                                  !.isDragging = FALSE,
                                  !.nextBirdTimer = 0])

advanceLevel(g) ==
    loadLevel([g EXCEPT !.birdsRemaining = Max(g.birdsRemaining + 2, 2)],
              g.currentLevel + 1)

reset(g) ==
    loadLevel([g EXCEPT !.score = 0, !.birdsRemaining = maxBirds,
                        !.sinceLaunch = nextBirdDelay], 0)

start(g) == [reset(g) EXCEPT !.isRunning = TRUE]

stop(g) == [g EXCEPT !.isRunning = FALSE]

gameOver(g, victory) ==
    [g EXCEPT !.isRunning = FALSE,
              !.gameOverTitle = IF victory THEN "LEVEL CLEAR" ELSE "GAME OVER",
              !.gameOverShown = TRUE]

(***************************************************************************)
(* The sling                                                               *)
(***************************************************************************)
canGrab(g, x, y) ==
    /\ g.currentBird # NoBird
    /\ Hypot(x - g.currentBird.x, y - g.currentBird.y) <= g.currentBird.r * 2

\* the pull as long as the pointer is far (a mutant: no clamp)
pullLength_Unclamped(h) == h

\* Math.min(this.maxPull, h): the pull distance for a pointer h from the anchor
pullLength(h) == Min(Px(maxPull), h)

updateAim(g, x, y) ==
    IF g.currentBird = NoBird THEN g
    ELSE LET dx == x - slingAnchor.x
             dy == y - slingAnchor.y
             dist == pullLength(Hypot(dx, dy))
             angle == Atan2(dy, dx)
         IN  [g EXCEPT
                !.pull = [dist |-> dist, angle |-> angle],
                !.currentBird.x = slingAnchor.x + Quot(Cos(angle) * dist, 1000),
                !.currentBird.y = slingAnchor.y + Quot(Sin(angle) * dist, 1000)]

resetCurrentBirdPosition(g) ==
    IF g.currentBird = NoBird THEN g
    ELSE [g EXCEPT !.currentBird.x = slingAnchor.x,
                   !.currentBird.y = slingAnchor.y,
                   !.pull = [dist |-> 0, angle |-> MinusQuarterPi]]

minPull == 10

speedScale == 5

\* a release snaps back below half the minimum pull only (a mutant)
snapsBack_Half(dist) == dist < Px(5)

\* dist < minPull: the release does not launch
snapsBack(dist) == dist < Px(minPull)

launchCurrentBird(g) ==
    IF g.currentBird = NoBird THEN g
    ELSE IF snapsBack(g.pull.dist)
         THEN [resetCurrentBirdPosition(g) EXCEPT !.isDragging = FALSE]
         ELSE LET dist == g.pull.dist
                  angle == g.pull.angle
                  bird == [g.currentBird EXCEPT
                             !.vx = -Quot(Cos(Neg(angle)) * dist * speedScale, 1000),
                             !.vy = -Quot(Sin(Neg(angle)) * dist * speedScale, 1000),
                             !.launched = TRUE,
                             !.active = TRUE,
                             !.restTime = 0]
              IN  [g EXCEPT !.birds = Append(g.birds, bird),
                            !.currentBird = NoBird,
                            !.isDragging = FALSE,
                            !.nextBirdTimer = nextBirdDelay,
                            !.sinceLaunch = 0]

(***************************************************************************)
(* One frame: update(dt)                                                   *)
(***************************************************************************)
gravity == 700

\* a slower ground frame adds to the rest time (a mutant: no reset by a fast one)
restOnGround_NoReset(restTime, speed, dt) == restTime + dt

\* the rest time after a frame that touched the ground at this speed
restOnGround(restTime, speed, dt) ==
    IF speed < Px(12) THEN restTime + dt ELSE 0

\* integrateBird.  Returns the bird and, as history, what the frame did to it.
\* groundRun is a history field of a bird: the time it has spent in an unbroken
\* run of frames that each touched the ground with speed below 12 and touched no
\* obstacle.
integrateBird(bird, dt) ==
    IF ~bird.launched
    THEN [bird |-> bird, ground |-> FALSE, groundSpeed |-> 0, asleep |-> FALSE,
          sleepSpeed |-> 0, offscreen |-> FALSE]
    ELSE
    LET vy1 == bird.vy + Quot(gravity * dt, 100)
        x1 == bird.x + Quot(bird.vx * dt, 1000)
        y1 == bird.y + Quot(vy1 * dt, 1000)
        r == bird.r
        \* wall bounce
        hitL == x1 - r < 0
        x2 == IF hitL THEN r ELSE x1
        vx2 == IF hitL THEN Quot(bird.vx * (-4), 10) ELSE bird.vx
        hitR == x2 + r > Px(CanvasW)
        x3 == IF hitR THEN Px(CanvasW) - r ELSE x2
        vx3 == IF hitR THEN Quot(vx2 * (-4), 10) ELSE vx2
        \* ground bounce
        ground == y1 + r > groundY
        y4 == IF ground THEN groundY - r ELSE y1
        vy4 == IF ground
               THEN (IF Abs(vy1) > Px(40) THEN Quot(vy1 * (-35), 100) ELSE 0)
               ELSE vy1
        vx4 == IF ground THEN Quot(vx3 * 93, 100) ELSE vx3
        speed == Hypot(vx4, vy4)
        rest4 == IF ground THEN restOnGround(bird.restTime, speed, dt)
                 ELSE bird.restTime
        run4 == IF ground /\ speed < Px(12) THEN bird.groundRun + dt ELSE 0
        moved == [bird EXCEPT !.x = x3, !.y = y4, !.vx = vx4, !.vy = vy4,
                              !.restTime = rest4, !.groundRun = run4]
        offscreen == \/ y4 - r > Quot(Px(CanvasH) * 12, 10)
                     \/ x3 + r < -Px(200)
                     \/ x3 - r > Px(CanvasW) + Px(200)
        asleep == ~offscreen /\ speed < Px(8) /\ rest4 > 800
    IN  [bird |-> IF offscreen \/ asleep THEN [moved EXCEPT !.active = FALSE] ELSE moved,
         ground |-> ground, groundSpeed |-> speed, asleep |-> asleep,
         sleepSpeed |-> speed, offscreen |-> offscreen]

\* squared distance from (x, y) to the nearest point of the rectangle ob
DistSqToRect(x, y, ob) ==
    LET nearestX == Max(ob.x, Min(x, ob.x + ob.w))
        nearestY == Max(ob.y, Min(y, ob.y + ob.h))
        dx == x - nearestX
        dy == y - nearestY
    IN  dx * dx + dy * dy

\* damage in proportion to the impact, however small (a mutant: no minimum)
damage_NoMinimum(dot) == Abs(dot)

\* Math.max(1, Math.abs(dot) * 0.02), what a contact takes from the health
damage(dot) == Max(Health(1), Abs(dot))

\* the body of the loop of handleObstacleCollisions, for one live obstacle the
\* bird overlaps: the bird and the obstacle after it
collide(bird, ob) ==
    LET nearestX == Max(ob.x, Min(bird.x, ob.x + ob.w))
        nearestY == Max(ob.y, Min(bird.y, ob.y + ob.h))
        dx == bird.x - nearestX
        dy == bird.y - nearestY
        r == bird.r
        d == Sqrt(dx * dx + dy * dy)
        \* Math.sqrt(distSq) || 0.001: with dist 0, dx = dy = 0 and so nx = ny = 0
        nx == IF d = 0 THEN 0 ELSE Quot(dx * 1000, d)
        ny == IF d = 0 THEN 0 ELSE Quot(dy * 1000, d)
        overlap == r - d
        dot == Quot(bird.vx * nx + bird.vy * ny, 1000)
        health == ob.health - damage(dot)
    IN  [bird |-> [bird EXCEPT
                     !.x = bird.x + Quot(nx * overlap, 1000),
                     !.y = bird.y + Quot(ny * overlap, 1000),
                     !.vx = Quot((bird.vx - Quot(16 * dot * nx, 10000)) * 82, 100),
                     !.vy = Quot((bird.vy - Quot(16 * dot * ny, 10000)) * 82, 100),
                     !.active = TRUE,
                     !.restTime = 0,
                     !.groundRun = 0],
         ob |-> [ob EXCEPT !.health = health,
                           !.alive = IF health <= 0 THEN FALSE ELSE ob.alive],
         dot |-> dot]

\* The history of one contact: the obstacle's id, whether the bird's centre was
\* outside the rectangle, the distance left between the centre and the rectangle
\* once the contact was processed, and what the contact did to the health.
contactRecord(bird, ob, c, frames) ==
    [id |-> ob.id,
     centerOutside |-> DistSqToRect(bird.x, bird.y, ob) > 0,
     distAfter |-> Sqrt(DistSqToRect(c.bird.x, c.bird.y, ob)),
     r |-> bird.r,
     healthBefore |-> ob.health,
     healthAfter |-> c.ob.health,
     contactFrames |-> frames,
     aliveAfter |-> c.ob.alive,
     birdActive |-> c.bird.active,
     birdRest |-> c.bird.restTime]

\* the contactFrames of an obstacle after a contact: one more, unless an earlier
\* bird touched it in this update
framesAfter(ob, contacts) ==
    IF \A k \in 1..Len(contacts) : contacts[k].id # ob.id
    THEN ob.contactFrames + 1 ELSE ob.contactFrames

RECURSIVE obstacleLoop(_, _, _, _)

\* the rest of the loop after the contact c of bird with obstacle i
afterContact(bird, obs, i, contacts, c, frames) ==
    obstacleLoop(c.bird,
                 [obs EXCEPT ![i] = [c.ob EXCEPT !.contactFrames = frames]],
                 i + 1,
                 Append(contacts, contactRecord(bird, obs[i], c, frames)))

\* handleObstacleCollisions from obstacle i on.  contacts is history: one record
\* per contact of this update.
obstacleLoop(bird, obs, i, contacts) ==
    IF i > Len(obs) THEN [bird |-> bird, obs |-> obs, contacts |-> contacts]
    ELSE IF obs[i].alive /\ DistSqToRect(bird.x, bird.y, obs[i]) < bird.r * bird.r
         THEN afterContact(bird, obs, i, contacts, collide(bird, obs[i]),
                           framesAfter(obs[i], contacts))
         ELSE obstacleLoop(bird, obs, i + 1, contacts)

handleObstacleCollisions(bird, obs, contacts) ==
    IF ~bird.launched THEN [bird |-> bird, obs |-> obs, contacts |-> contacts]
    ELSE obstacleLoop(bird, obs, 1, contacts)

\* the history of one bird's frame: m is what integrateBird returned, h what
\* handleObstacleCollisions returned, before the number of contacts before it
birdTrace(m, h, before) ==
    [ground |-> m.ground, groundSpeed |-> m.groundSpeed,
     asleep |-> m.asleep, sleepSpeed |-> m.sleepSpeed,
     restAfterMove |-> m.bird.restTime,
     runAfterMove |-> m.bird.groundRun,
     touched |-> Len(h.contacts) > before,
     activeAfter |-> h.bird.active,
     restAfter |-> h.bird.restTime]

RECURSIVE birdLoop(_, _, _, _, _, _)

\* the rest of the loop after bird i was moved (m) and its contacts handled (h)
afterBird(bs, i, dt, traces, m, h, before) ==
    birdLoop([bs EXCEPT ![i] = h.bird], h.obs, i + 1, dt, h.contacts,
             Append(traces, birdTrace(m, h, before)))

\* bird i after integrateBird (m): its obstacle contacts, then the next bird
moveBird(bs, obs, i, dt, contacts, traces, m) ==
    afterBird(bs, i, dt, traces, m,
              handleObstacleCollisions(m.bird, obs, contacts), Len(contacts))

\* the loop of updateBirds from bird i on
birdLoop(bs, obs, i, dt, contacts, traces) ==
    IF i > Len(bs)
    THEN [birds |-> bs, obstacles |-> obs, contacts |-> contacts, traces |-> traces]
    ELSE moveBird(bs, obs, i, dt, contacts, traces, integrateBird(bs[i], dt))

\* the end of updateBirds: only the active birds stay
keepActive(g, done) ==
    [g |-> [g EXCEPT !.birds = SelectSeq(done.birds, LAMBDA b : b.active),
                     !.obstacles = done.obstacles],
     contacts |-> done.contacts, traces |-> done.traces]

updateBirds(g, dt) ==
    keepActive(g, birdLoop(g.birds, g.obstacles, 1, dt, << >>, << >>))

updateParticles(g, dt) ==
    [g EXCEPT !.particles = {life - dt : life \in {l \in g.particles : l - dt > 0}}]

cleanupObstacles_Keeps(g) == g

cleanupObstacles(g) ==
    [g EXCEPT !.obstacles = SelectSeq(g.obstacles, LAMBDA o : o.alive /\ o.health > 0)]

\* the index of the first launched bird that touches the pig, or 0
FirstHit(pig, bs) ==
    LET hits == {j \in 1..Len(bs) :
                    /\ bs[j].launched
                    /\ Hypot(pig.x - bs[j].x, pig.y - bs[j].y) < pig.r + bs[j].r}
    IN  IF hits = {} THEN 0 ELSE CHOOSE j \in hits : \A k \in hits : j <= k

\* a pig is hit whether alive or not (a mutant)
hitBy_DeadToo(pig, bs) == FirstHit(pig, bs)

\* the bird that hits the pig in checkHits, or 0: a pig that is not alive is
\* skipped
hitBy(pig, bs) == IF pig.alive THEN FirstHit(pig, bs) ELSE 0

\* checkHits from pig i on.  lives: the lifetimes Math.random gives the particles
\* of a hit (spawnHitParticles).
RECURSIVE pigLoop(_, _, _)
pigLoop(g, i, lives) ==
    IF i > Len(g.pigs) THEN g
    ELSE LET pig == g.pigs[i]
             j == hitBy(pig, g.birds)
         IN  IF j = 0 THEN pigLoop(g, i + 1, lives)
             ELSE pigLoop([g EXCEPT !.pigs[i].alive = FALSE,
                                    !.score = g.score + 100,
                                    !.particles = g.particles \cup lives,
                                    !.birds[j].vx = Quot(g.birds[j].vx * 7, 10),
                                    !.birds[j].vy = Quot(g.birds[j].vy * 7, 10)],
                          i + 1, lives)

checkHits(g, lives) == pigLoop(g, 1, lives)

\* the next bird comes without the delay (a mutant)
handleNextBird_NoDelay(g, dt) ==
    IF g.currentBird # NoBird \/ g.birdsRemaining <= 0 THEN g
    ELSE prepareNextBird([g EXCEPT !.nextBirdTimer = @ - dt])

handleNextBird(g, dt) ==
    IF g.currentBird # NoBird \/ g.birdsRemaining <= 0 THEN g
    ELSE LET t == g.nextBirdTimer - dt
             g1 == [g EXCEPT !.nextBirdTimer = t]
         IN  IF t <= 0 THEN prepareNextBird(g1) ELSE g1

PigsAlive(ps) == \E i \in 1..Len(ps) : ps[i].alive

\* the level advances as soon as one pig is dead (a mutant)
checkGameOver_AnyPigDead(g) ==
    IF \E i \in 1..Len(g.pigs) : ~g.pigs[i].alive THEN advanceLevel(g)
    ELSE LET activeBirds == \E i \in 1..Len(g.birds) : g.birds[i].active
             hasAmmo == g.birdsRemaining > 0 \/ g.currentBird # NoBird
         IN  IF ~activeBirds /\ ~hasAmmo THEN gameOver(g, FALSE) ELSE g

\* the bird on the sling does not count as ammunition (a mutant)
checkGameOver_SlingForgotten(g) ==
    IF ~PigsAlive(g.pigs) THEN advanceLevel(g)
    ELSE LET activeBirds == \E i \in 1..Len(g.birds) : g.birds[i].active
             hasAmmo == g.birdsRemaining > 0
         IN  IF ~activeBirds /\ ~hasAmmo THEN gameOver(g, FALSE) ELSE g

checkGameOver(g) ==
    IF ~PigsAlive(g.pigs) THEN advanceLevel(g)
    ELSE LET activeBirds == \E i \in 1..Len(g.birds) : g.birds[i].active
             hasAmmo == g.birdsRemaining > 0 \/ g.currentBird # NoBird
         IN  IF ~activeBirds /\ ~hasAmmo THEN gameOver(g, FALSE) ELSE g

\* the end of update: g4 is the object before checkGameOver, whose fields the
\* frame's history keeps
endOfFrame(level, ub, g4) ==
    [g |-> checkGameOver(g4),
     frame |-> [level |-> level,
                contacts |-> ub.contacts, birds |-> ub.traces,
                pigsAliveAtCheck |-> PigsAlive(g4.pigs),
                before |-> [birdsRemaining |-> g4.birdsRemaining,
                            onSling |-> g4.currentBird # NoBird,
                            score |-> g4.score,
                            particles |-> g4.particles,
                            inFlight |-> Len(g4.birds)]]]

\* update after updateBirds (ub)
afterBirds(level, dt, lives, ub) ==
    endOfFrame(level, ub,
               handleNextBird(checkHits(cleanupObstacles(updateParticles(ub.g, dt)),
                                        lives), dt))

\* update(dt): the object after the frame, and the frame's history
update(g, dt, lives) ==
    afterBirds(g.currentLevel, dt, lives,
               updateBirds([g EXCEPT !.sinceLaunch = Min(nextBirdDelay, @ + dt)], dt))

(***************************************************************************)
(* The Leli game: the globals of src/game.js and its gameLoop              *)
(***************************************************************************)
GRAVITY == 200

SPAWN_RATE == 2000

PLAYER_SPEED == 400

SPAWNER_SPEED == 150

\* new Player()
Player ==
    [width |-> 60, height |-> 60, x |-> CanvasW \div 2 - 30, y |-> CanvasH - 60 - 10]

\* new Spawner()
Spawner == [x |-> CanvasW \div 2, y |-> 50, direction |-> 1, timer |-> 0]

\* new Projectile(x, y); next is 500 + Math.random() * 1000
Projectile(x, y, next) ==
    [x |-> x, y |-> y, vy |-> 0, speedBoostTimer |-> 0, nextBoostTime |-> next,
     isBoosting |-> FALSE, markedForDeletion |-> FALSE]

\* the Leli game before anybody played
NewLeli ==
    [score |-> 0, player |-> Player, spawner |-> Spawner,
     projectiles |-> << >>, particles |-> << >>, frames |-> 0]

\* Player.update(dt) with the arrow key that is down
Player_update(p, key, dt) ==
    LET x1 == IF key = "ArrowLeft" THEN p.x - Quot(PLAYER_SPEED * dt, 1000) ELSE p.x
        x2 == IF key = "ArrowRight" THEN x1 + Quot(PLAYER_SPEED * dt, 1000) ELSE x1
        x3 == IF x2 < 0 THEN 0 ELSE x2
    IN  [p EXCEPT !.x = IF x3 + p.width > CanvasW THEN CanvasW - p.width ELSE x3]

\* Spawner.update(dt); spawn says whether it called spawnProjectile
Spawner_update(sp, dt) ==
    LET x1 == sp.x + Quot(SPAWNER_SPEED * sp.direction * dt, 1000)
        d1 == IF x1 < 50 \/ x1 > CanvasW - 50 THEN -sp.direction ELSE sp.direction
        t1 == sp.timer + dt
    IN  [spawner |-> [sp EXCEPT !.x = x1, !.direction = d1,
                                !.timer = IF t1 > SPAWN_RATE THEN 0 ELSE t1],
         spawn |-> t1 > SPAWN_RATE]

\* the speed after the sudden boost of boost = 150 + Math.random() * 200, if the
\* projectile boosts now
boosted(vy, now, boost) == IF now THEN vy + boost ELSE vy

\* Projectile.update(dt); rnd holds this frame's Math.random() results
Projectile_update(p, dt, rnd) ==
    LET t1 == p.speedBoostTimer + dt
        now == t1 > p.nextBoostTime /\ ~p.isBoosting
        t2 == IF now THEN 0 ELSE t1
        vy2 == boosted(p.vy + Quot(GRAVITY * dt, 1000), now, rnd.boost)
        y2 == p.y + Quot(vy2 * dt, 1000)
    IN  [p EXCEPT !.vy = vy2,
                  !.speedBoostTimer = t2,
                  !.nextBoostTime = IF now THEN rnd.next ELSE @,
                  !.isBoosting = (now \/ @) /\ ~(t2 > 100),
                  !.y = y2,
                  !.markedForDeletion = @ \/ y2 > CanvasH]

\* checkCollisions: whether the player catches p
caught(p, player) ==
    /\ p.y + 15 > player.y
    /\ p.y - 15 < player.y + player.height
    /\ p.x > player.x
    /\ p.x < player.x + player.width

\* n new Particle(x, y, color): only the life of a particle matters (ms)
RECURSIVE spawnParticles(_, _)
spawnParticles(ps, n) == IF n = 0 THEN ps ELSE spawnParticles(Append(ps, 1000), n - 1)

RECURSIVE checkCollisionsFrom(_, _)
checkCollisionsFrom(l, i) ==
    IF i > Len(l.projectiles) THEN l
    ELSE IF caught(l.projectiles[i], l.player)
         THEN checkCollisionsFrom(
                  [l EXCEPT !.projectiles[i].markedForDeletion = TRUE,
                            !.score = @ + 1,
                            !.particles = spawnParticles(@, 15)], i + 1)
         ELSE checkCollisionsFrom(l, i + 1)

checkCollisions(l) == checkCollisionsFrom(l, 1)

\* the projectile list after spawner.update: spawnProjectile(this.x, this.y + 30)
spawned(ps, s, next) ==
    IF s.spawn THEN Append(ps, Projectile(s.spawner.x, s.spawner.y + 30, next)) ELSE ps

\* a projectile below the canvas called triggerGameOver in its update
fell(moved) == \E i \in 1..Len(moved) : moved[i].y > CanvasH

\* the end of the frame: the lists are filtered, then checkCollisions
filtered(l, s, moved) ==
    checkCollisions(
        [l EXCEPT !.spawner = s.spawner,
                  !.projectiles = SelectSeq(moved, LAMBDA p : ~p.markedForDeletion)])

\* a frame of gameLoop past its guard, with the projectile list after the
\* projectiles' update (moved)
movedFrame(l, s, moved) ==
    [leli |-> filtered(l, s, moved), over |-> fell(moved)]

\* the same with the projectile list after spawner.update (all)
spawnedFrame(l, s, all, dt, rnd) ==
    movedFrame(l, s, [i \in 1..Len(all) |-> Projectile_update(all[i], dt, rnd)])

\* the update of gameLoop(timestamp): dt = timestamp - lastTime, key the arrow
\* key that is down
gameLoopUpdate(l, key, dt, rnd) ==
    spawnedFrame(
        [l EXCEPT !.frames = @ + 1,
                  !.player = Player_update(@, key, dt),
                  !.particles = SelectSeq([i \in 1..Len(@) |-> @[i] - 2 * dt],
                                          LAMBDA life : life > 0)],
        Spawner_update(l.spawner, dt),
        spawned(l.projectiles, Spawner_update(l.spawner, dt), rnd.next), dt, rnd)

\* the guard of gameLoop
gameLoopReturns(over, started) == over \/ ~started

(***************************************************************************)
(* FlappyGame (src/unnamed/part_000)                                       *)
(***************************************************************************)
Flappy_GRAVITY == 800

PIPE_SPEED == 200

PIPE_GAP == 150

PIPE_WIDTH == 60

PIPE_SPAWN_RATE == 2000

\* FlappyGame before start(): bird is null
NewFlappy ==
    [isRunning |-> FALSE, score |-> 0, bird |-> [y |-> 0, velocity |-> 0],
     pipes |-> << >>, pipeTimer |-> 0]

\* FlappyGame.reset(): the bird's x, width and height never change
Flappy_reset(f) ==
    [f EXCEPT !.score = 0, !.pipes = << >>, !.pipeTimer = 0,
              !.bird = [y |-> CanvasH \div 2, velocity |-> 0]]

Flappy_start(f) == [Flappy_reset(f) EXCEPT !.isRunning = TRUE]

Flappy_stop(f) == [f EXCEPT !.isRunning = FALSE]

\* bird.x = canvas.width * 0.2 and bird.width = 50
flappyBirdX == Quot(CanvasW * 2, 10)

\* checkCollisions: the circle of radius bird.width / 2 - 8 around the bird's centre
\* leaves the canvas or touches a pipe
Flappy_hits(f) ==
    LET cx == flappyBirdX + 25
        cy == f.bird.y + 25
        r  == 25 - 8
    IN  \/ cy - r < 0
        \/ cy + r > CanvasH
        \/ \E i \in 1..Len(f.pipes) :
              /\ cx + r > f.pipes[i].x
              /\ cx - r < f.pipes[i].x + PIPE_WIDTH
              /\ \/ cy - r < f.pipes[i].gapY
                 \/ cy + r > f.pipes[i].gapY + PIPE_GAP

\* a pipe after the frame: it moves, and scores once the bird is past it
Flappy_pipe(p, dt) ==
    LET x1 == p.x - Quot(PIPE_SPEED * dt, 1000)
    IN  [p EXCEPT !.x = x1, !.scored = @ \/ x1 + PIPE_WIDTH < flappyBirdX]

\* the pipes after spawnPipe, if the timer asks for one; gapY is its random gap
Flappy_spawn(f, dt, gapY) ==
    IF f.pipeTimer + dt > PIPE_SPAWN_RATE
    THEN Append(f.pipes, [x |-> CanvasW, gapY |-> gapY, scored |-> FALSE])
    ELSE f.pipes

\* the game after the pipes moved
Flappy_moved(f, dt, before, after) ==
    [f EXCEPT !.pipeTimer = IF @ + dt > PIPE_SPAWN_RATE THEN 0 ELSE @ + dt,
              !.score = @ + Cardinality({i \in 1..Len(after) :
                                           after[i].scored /\ ~before[i].scored}),
              !.pipes = SelectSeq(after, LAMBDA p : p.x + PIPE_WIDTH > 0)]

Flappy_pipes(f, dt, before) ==
    Flappy_moved(f, dt, before, [i \in 1..Len(before) |-> Flappy_pipe(before[i], dt)])

\* checkCollisions and gameOver
Flappy_checkCollisions(f) == IF Flappy_hits(f) THEN Flappy_stop(f) ELSE f

\* FlappyGame.update(dt)
Flappy_update(f, dt, gapY) ==
    Flappy_checkCollisions(
        Flappy_pipes(
            [f EXCEPT !.bird.velocity = @ + Quot(Flappy_GRAVITY * dt, 1000),
                      !.bird.y = @ + Quot((f.bird.velocity + Quot(Flappy_GRAVITY * dt, 1000)) * dt,
                                          1000)],
            dt, Flappy_spawn(f, dt, gapY)))

\* the guard of FlappyGame.gameLoop
Flappy_gameLoopReturns(f) == ~f.isRunning

(***************************************************************************)
(* Inputs                                                                  *)
(***************************************************************************)
\* the time between two frame callbacks, timestamp - lastTime, in ms
FrameTimes == {50}

\* the dt of loop(): a gap above 0.05 s counts as 0.016 s
frameDt(elapsed) == IF elapsed > 50 THEN 16 ELSE elapsed

\* where the pointer goes, in pixels from the sling anchor
PointerOffsets ==
    { <<-5, 3>>, <<-20, -15>>, <<-100, -200>>, <<-300, 100>> }

PointerPositions ==
    { [x |-> slingAnchor.x + Px(o[1]), y |-> slingAnchor.y + Px(o[2])] :
        o \in PointerOffsets }

\* the one short pull of the player who walks through the menus
TouchPositions == { [x |-> slingAnchor.x + Px(-20), y |-> slingAnchor.y + Px(-15)] }

\* the lifetimes 0.8 + Math.random() * 0.4 of spawnHitParticles, in ms
ParticleLives == {1000}

\* the levels the model plays
MaxLevel == 3

\* the player grabs the sling only while fewer birds than this are in flight
MaxInFlight == 1

\* the frames of the Leli game that the model plays
MaxLeliFrames == 9

\* the time between two frames of the Leli game, in ms
LeliFrameTimes == {500}

\* the arrow key that is down during a frame of the Leli game
Keys == {"none", "ArrowRight"}

\* Math.random() in Projectile: the boost 150 + Math.random() * 200 and the
\* time to the next boost 500 + Math.random() * 1000
Randoms == { [boost |-> 150, next |-> 600] }

\* the time between two frames of the Flappy game, in ms
FlappyFrameTimes == {100}

\* the dt of FlappyGame.gameLoop: a gap above 0.1 s counts as 0.016 s
Flappy_frameDt(elapsed) == IF elapsed > 100 THEN 16 ELSE elapsed

\* gapY of spawnPipe: minGapY + Math.random() * (maxGapY - minGapY)
GapYs == {200}

(***************************************************************************)
(* The orientation lock                                                    *)
(***************************************************************************)
\* needsLandscapeForAngry(): a mobile device whose window is higher than wide
needsLandscapeForAngry == portrait

\* updateOrientationLock() with the Angry game g: shouldBlock, what it leaves in
\* pendingAngryStart, and the game
updateOrientationLock(g, cg, pending, needs) ==
    [blocked |-> (cg = "angry" \/ pending) /\ needs,
     pending |-> pending \/ ((cg = "angry" \/ pending) /\ needs /\ cg = "angry"),
     g |-> IF (cg = "angry" \/ pending) /\ needs THEN stop(g) ELSE g]

\* startAngryGame() after its call of updateOrientationLock() returned u: the
\* page's fields that it writes, hide for the screens it hides, starts for its
\* calls of AngryLeliGame.start()
startAfterLock(cg, u) ==
    IF u.blocked
    THEN [g |-> u.g, currentGame |-> cg, blocked |-> TRUE, pending |-> TRUE,
          hide |-> FALSE, starts |-> 0]
    ELSE [g |-> [start(u.g) EXCEPT !.gameOverShown = FALSE], currentGame |-> "angry",
          blocked |-> FALSE, pending |-> FALSE, hide |-> TRUE, starts |-> 1]

startAngryGameCall(g, cg, pending, needs) ==
    startAfterLock(cg, updateOrientationLock(g, cg, pending, needs))

\* whether handleOrientationChange starts the pending game
startsPending_Never(wasBlocked, u) == FALSE

startsPending(wasBlocked, u) == wasBlocked /\ ~u.blocked /\ u.pending

\* handleOrientationChange() after its call of updateOrientationLock() returned u
changeAfterLock(cg, wasBlocked, needs, u) ==
    IF startsPending(wasBlocked, u)
    THEN startAngryGameCall(u.g, cg, FALSE, needs)
    ELSE [g |-> u.g, currentGame |-> cg, blocked |-> u.blocked, pending |-> u.pending,
          hide |-> FALSE, starts |-> 0]

handleOrientationChange(g, cg, wasBlocked, pending, needs) ==
    changeAfterLock(cg, wasBlocked, needs, updateOrientationLock(g, cg, pending, needs))

\* AngryLeliGame.onResize() on a canvas that keeps its size
onResize(g) ==
    IF g.currentBird # NoBird /\ ~g.currentBird.launched
    THEN [g EXCEPT !.currentBird.x = slingAnchor.x, !.currentBird.y = slingAnchor.y]
    ELSE g

\* the page after startAngryGame or handleOrientationChange returned r
Locked(r) ==
    /\ Becomes(r.g)
    /\ currentGame' = r.currentGame
    /\ orientationBlocked' = r.blocked
    /\ pendingAngryStart' = r.pending
    /\ welcomeShown' = (welcomeShown /\ ~r.hide)
    /\ starts' = r.starts

\* a handler returned at its guard: nothing but the history changes
Returned ==
    /\ op' = "return"
    /\ frame' = NoFrame
    /\ starts' = 0
    /\ UNCHANGED << currentGame, angryVars, welcomeShown, lockVars, leliVars, flappy,
                    screens, pointer >>

(***************************************************************************)
(* Menu                                                                    *)
(***************************************************************************)
showLeliWelcome ==
    /\ currentGame = NULL
    /\ currentGame' = "leli"
    /\ screens' = screens \cup {"welcome-screen"}
    /\ op' = "showLeliWelcome"
    /\ frame' = NoFrame
    /\ starts' = 0
    /\ UNCHANGED << angryVars, welcomeShown, lockVars, leliVars, flappy, pointer >>

showFlappyWelcome ==
    /\ currentGame = NULL
    /\ currentGame' = "flappy"
    /\ screens' = screens \cup {"flappy-welcome"}
    /\ op' = "showFlappyWelcome"
    /\ frame' = NoFrame
    /\ starts' = 0
    /\ UNCHANGED << angryVars, welcomeShown, lockVars, leliVars, flappy, pointer >>

showAngryWelcome ==
    /\ currentGame = NULL
    /\ currentGame' = "angry"
    /\ welcomeShown' = TRUE
    /\ op' = "showAngryWelcome"
    /\ frame' = NoFrame
    /\ starts' = 0
    /\ UNCHANGED << angryVars, lockVars, leliVars, flappy, screens, pointer >>

\* the AngryLeliGame that showMainMenu leaves
stopped(g) == stop(g)

\* a button 'back-to-menu-...' or 'menu-from-...' of a screen that is shown
showMainMenu ==
    /\ currentGame # NULL \/ screens # {} \/ welcomeShown \/ gameOverShown
    /\ isGameStarted' = FALSE
    /\ isGameOver' = FALSE
    /\ pendingAngryStart' = FALSE
    /\ orientationBlocked' = FALSE
    /\ flappy' = Flappy_stop(flappy)
    /\ Becomes([stopped(This) EXCEPT !.gameOverShown = FALSE])
    /\ welcomeShown' = FALSE
    /\ screens' = {}
    /\ currentGame' = NULL
    /\ op' = "showMainMenu"
    /\ frame' = NoFrame
    /\ starts' = 0
    /\ UNCHANGED << portrait, leli, awaiting, pointer >>

\* the click on 'start-btn': startGame() up to its await
startGame ==
    /\ "welcome-screen" \in screens
    /\ awaiting' = awaiting \cup {"startGame"}
    /\ op' = "startGame"
    /\ frame' = NoFrame
    /\ starts' = 0
    /\ UNCHANGED << currentGame, angryVars, welcomeShown, lockVars, isGameStarted,
                    isGameOver, leli, flappy, screens, pointer >>

\* startGame() after ensureAudioReady() resolved
startGameResumes ==
    /\ "startGame" \in awaiting
    /\ awaiting' = awaiting \ {"startGame"}
    /\ isGameStarted' = TRUE
    /\ screens' = screens \ {"welcome-screen"}
    /\ op' = "startGameResumes"
    /\ frame' = NoFrame
    /\ starts' = 0
    /\ UNCHANGED << currentGame, angryVars, welcomeShown, lockVars, isGameOver, leli,
                    flappy, pointer >>

\* the click on 'restart-btn': resetGame() up to its await
resetGame ==
    /\ "game-over" \in screens
    /\ awaiting' = awaiting \cup {"resetGame"}
    /\ op' = "resetGame"
    /\ frame' = NoFrame
    /\ starts' = 0
    /\ UNCHANGED << currentGame, angryVars, welcomeShown, lockVars, isGameStarted,
                    isGameOver, leli, flappy, screens, pointer >>

\* resetGame() after ensureAudioReady() resolved
resetGameResumes ==
    /\ "resetGame" \in awaiting
    /\ awaiting' = awaiting \ {"resetGame"}
    /\ isGameOver' = FALSE
    /\ leli' = [NewLeli EXCEPT !.frames = leli.frames]
    /\ screens' = screens \ {"game-over"}
    /\ op' = "resetGameResumes"
    /\ frame' = NoFrame
    /\ starts' = 0
    /\ UNCHANGED << currentGame, angryVars, welcomeShown, lockVars, isGameStarted,
                    flappy, pointer >>

startFlappyGame ==
    /\ "flappy-welcome" \in screens
    /\ flappy' = Flappy_start(flappy)
    /\ screens' = screens \ {"flappy-welcome"}
    /\ op' = "startFlappyGame"
    /\ frame' = NoFrame
    /\ starts' = 0
    /\ UNCHANGED << currentGame, angryVars, welcomeShown, lockVars, leliVars, pointer >>

resetFlappyGame ==
    /\ "flappy-game-over" \in screens
    /\ flappy' = Flappy_start(flappy)
    /\ screens' = screens \ {"flappy-game-over"}
    /\ op' = "resetFlappyGame"
    /\ frame' = NoFrame
    /\ starts' = 0
    /\ UNCHANGED << currentGame, angryVars, welcomeShown, lockVars, leliVars, pointer >>

startAngryGame ==
    /\ welcomeShown
    /\ Locked(startAngryGameCall(This, currentGame, pendingAngryStart,
                                 needsLandscapeForAngry))
    /\ op' = "startAngryGame"
    /\ frame' = NoFrame
    /\ UNCHANGED << portrait, leliVars, flappy, screens, pointer >>

resetAngryGame ==
    /\ gameOverShown
    /\ Becomes([start(This) EXCEPT !.gameOverShown = FALSE])
    /\ currentGame' = "angry"
    /\ op' = "resetAngryGame"
    /\ frame' = NoFrame
    /\ starts' = 1
    /\ UNCHANGED << welcomeShown, lockVars, leliVars, flappy, screens, pointer >>

(***************************************************************************)
(* The window's resize and orientationchange events                        *)
(***************************************************************************)
\* 'resize': resize() (game.js:21) and then handleOrientationChange()
resize ==
    /\ \E p \in BOOLEAN :
          /\ portrait' = p
          /\ Locked(handleOrientationChange(onResize(This), currentGame,
                                            orientationBlocked, pendingAngryStart, p))
    /\ op' = "resize"
    /\ frame' = NoFrame
    /\ UNCHANGED << leliVars, flappy, screens, pointer >>

\* 'orientationchange': handleOrientationChange()
orientationchange ==
    /\ \E p \in BOOLEAN :
          /\ portrait' = p
          /\ Locked(handleOrientationChange(This, currentGame, orientationBlocked,
                                            pendingAngryStart, p))
    /\ op' = "orientationchange"
    /\ frame' = NoFrame
    /\ UNCHANGED << leliVars, flappy, screens, pointer >>

(***************************************************************************)
(* Pointer events (setupControls)                                          *)
(***************************************************************************)
\* the guards of the handlers: whether the handler returns at once
pointerDownReturns(g, cg) == ~g.isRunning \/ cg # "angry"

pointerMoveReturns(g, cg) == ~g.isRunning \/ cg # "angry" \/ ~g.isDragging

\* pointerup looks at isDragging only (a mutant)
pointerUpReturns_WhileStopped(g, cg) == ~g.isDragging

pointerUpReturns(g, cg) == ~g.isRunning \/ cg # "angry" \/ ~g.isDragging

\* the page's fields that no handler of AngryLeliGame writes
Page == << currentGame, welcomeShown, lockVars, leliVars, flappy, screens >>

pointerDown(Positions) ==
    \E pos \in Positions :
       IF pointerDownReturns(This, currentGame) \/ ~canGrab(This, pos.x, pos.y)
       THEN Returned
       ELSE /\ Len(birds) < MaxInFlight
            /\ Becomes(updateAim([This EXCEPT !.isDragging = TRUE], pos.x, pos.y))
            /\ pointer' = pos
            /\ op' = "pointerDown"
            /\ frame' = NoFrame
            /\ starts' = 0
            /\ UNCHANGED Page

pointerMove(Positions) ==
    \E pos \in Positions :
       IF pointerMoveReturns(This, currentGame)
       THEN Returned
       ELSE /\ Becomes(updateAim(This, pos.x, pos.y))
            /\ pointer' = pos
            /\ op' = "pointerMove"
            /\ frame' = NoFrame
            /\ starts' = 0
            /\ UNCHANGED Page

\* pointerup and pointerleave
pointerUp ==
    IF pointerUpReturns(This, currentGame)
    THEN Returned
    ELSE /\ Becomes(launchCurrentBird(This))
         /\ op' = "pointerUp"
         /\ frame' = NoFrame
         /\ starts' = 0
         /\ UNCHANGED << Page, pointer >>

(***************************************************************************)
(* The frame callbacks                                                     *)
(***************************************************************************)
\* the object and the history become what update returned
Updated(u) == Becomes(u.g) /\ frame' = u.frame

\* the guard of AngryLeliGame.loop
loopReturns(g, cg) == ~g.isRunning \/ cg # "angry"

loop ==
    /\ currentLevel <= MaxLevel
    /\ IF loopReturns(This, currentGame)
       THEN Returned
       ELSE /\ \E elapsed \in FrameTimes, lives \in (SUBSET ParticleLives) \ {{}} :
                  Updated(update(This, frameDt(elapsed), lives))
            /\ op' = "loop"
            /\ starts' = 0
            /\ UNCHANGED << Page, pointer >>

\* the Leli game after the frame u
LeliUpdated(u) ==
    /\ leli' = u.leli
    /\ isGameOver' = u.over
    /\ screens' = IF u.over THEN screens \cup {"game-over"} ELSE screens

\* gameLoop(timestamp) of src/game.js
gameLoop ==
    IF gameLoopReturns(isGameOver, isGameStarted)
    THEN Returned
    ELSE /\ leli.frames < MaxLeliFrames
         /\ \E key \in Keys, elapsed \in LeliFrameTimes, rnd \in Randoms :
               LeliUpdated(gameLoopUpdate(leli, key, elapsed, rnd))
         /\ op' = "gameLoop"
         /\ frame' = NoFrame
         /\ starts' = 0
         /\ UNCHANGED << currentGame, angryVars, welcomeShown, lockVars, isGameStarted,
                         awaiting, flappy, pointer >>

\* the Flappy game after the frame that left f
FlappyUpdated(f) ==
    /\ flappy' = f
    /\ screens' = IF f.isRunning THEN screens ELSE screens \cup {"flappy-game-over"}

\* FlappyGame.gameLoop(timestamp)
Flappy_gameLoop ==
    IF Flappy_gameLoopReturns(flappy)
    THEN Returned
    ELSE /\ \E elapsed \in FlappyFrameTimes, gapY \in GapYs :
               FlappyUpdated(Flappy_update(flappy, Flappy_frameDt(elapsed), gapY))
         /\ op' = "Flappy.gameLoop"
         /\ frame' = NoFrame
         /\ starts' = 0
         /\ UNCHANGED << currentGame, angryVars, welcomeShown, lockVars, leliVars,
                         pointer >>

(***************************************************************************)
(* The specifications                                                      *)
(***************************************************************************)
Loaded ==
    /\ currentGame = NULL
    /\ isRunning = FALSE
    /\ score = 0
    /\ birdsRemaining = 0
    /\ birds = << >>
    /\ pigs = << >>
    /\ obstacles = << >>
    /\ currentLevel = 0
    /\ particles = {}
    /\ currentBird = NoBird
    /\ isDragging = FALSE
    /\ pull = [dist |-> 0, angle |-> MinusQuarterPi]
    /\ nextBirdTimer = 0
    /\ sinceLaunch = nextBirdDelay
    /\ gameOverTitle = ""
    /\ gameOverShown = FALSE
    /\ welcomeShown = FALSE
    /\ orientationBlocked = FALSE
    /\ pendingAngryStart = FALSE
    /\ isGameStarted = FALSE
    /\ isGameOver = FALSE
    /\ leli = NewLeli
    /\ awaiting = {}
    /\ flappy = NewFlappy
    /\ screens = {}
    /\ starts = 0
    /\ pointer = [x |-> 0, y |-> 0]
    /\ op = "init"
    /\ frame = NoFrame

\* Angry Leli on a device that never needs the landscape lock
Init == Loaded /\ portrait = FALSE

Next ==
    \/ showAngryWelcome
    \/ showMainMenu
    \/ startAngryGame
    \/ resetAngryGame
    \/ pointerDown(PointerPositions)
    \/ pointerMove(PointerPositions)
    \/ pointerUp
    \/ loop

Spec == Init /\ [][Next]_vars

\* a mobile device, which the player holds either way
MobileInit == Loaded /\ portrait \in BOOLEAN

\* the whole page on a mobile device, with a player who walks through the menus
\* and plays the Leli and the Flappy game but never touches the sling
MenuNext ==
    \/ showLeliWelcome
    \/ showFlappyWelcome
    \/ showAngryWelcome
    \/ showMainMenu
    \/ startGame
    \/ startGameResumes
    \/ resetGame
    \/ resetGameResumes
    \/ startFlappyGame
    \/ resetFlappyGame
    \/ startAngryGame
    \/ resize
    \/ orientationchange
    \/ loop
    \/ gameLoop
    \/ Flappy_gameLoop

MenuSpec == MobileInit /\ [][MenuNext]_vars

\* Angry Leli on a mobile device that the player turns, with a player who
\* pulls the sling a little
LockNext ==
    \/ showAngryWelcome
    \/ showMainMenu
    \/ startAngryGame
    \/ resetAngryGame
    \/ resize
    \/ orientationchange
    \/ pointerDown(TouchPositions)
    \/ pointerMove(TouchPositions)
    \/ pointerUp
    \/ loop

LockSpec == MobileInit /\ [][LockNext]_vars

(***************************************************************************)
(* Properties                                                              *)
(***************************************************************************)
\* the state right after a pointerup that launched the bird: the sling is empty
\* (a pointerup that snaps back leaves the bird on it) and the launched bird is
\* the last of birds
Launched == op = "pointerUp" /\ currentBird = NoBird

\* C1 (as claimed; it fails).  Once handleObstacleCollisions has processed an
\* obstacle the bird overlapped, the bird's centre is at least one radius away
\* from the nearest point of that obstacle (to within a pixel of rounding),
\* wherever the centre was: outside the rectangle, on its edge or inside it.
C1_PushedOut ==
    \A i \in 1..Len(frame.contacts) :
        frame.contacts[i].distAfter >= frame.contacts[i].r - Px(1)

\* C2 (as claimed; it fails).  A launch gives the bird a velocity whose
\* horizontal and vertical components both have the sign opposite to the pull
\* offset from the sling anchor, and a speed of 5 times the pull distance (to
\* within two pixels per second of rounding).
C2_LaunchOpposite ==
    Launched =>
        LET b == birds[Len(birds)]
            dx == pointer.x - slingAnchor.x
            dy == pointer.y - slingAnchor.y
        IN  /\ pull.dist >= Px(minPull)
            /\ (dx > 0 => b.vx < 0) /\ (dx < 0 => b.vx > 0)
            /\ (dy > 0 => b.vy < 0) /\ (dy < 0 => b.vy > 0)
            /\ Abs(Hypot(b.vx, b.vy) - 5 * pull.dist) <= Px(2)

\* the health buildLevel gives obstacle id of a level
InitialHealth(level, id) == Layouts[(level % 3) + 1].obstacles[id].health

\* C3.  Every contact of a launched bird with an obstacle hits a live obstacle
\* and takes at least 1 from its health; the obstacle is alive afterwards exactly
\* if health is left; its health is at most the health it was built with (at
\* most 5) minus 1 per update in which a bird touched it, so it is gone by the
\* h-th such update; a destroyed obstacle is not touched again in the update and
\* is not in the obstacle list once the update ends.
C3_ObstacleDamage ==
    /\ \A i \in 1..Len(frame.contacts) :
          LET c == frame.contacts[i]
          IN  /\ c.healthBefore > 0
              /\ c.healthAfter <= c.healthBefore - Health(1)
              /\ c.aliveAfter <=> c.healthAfter > 0
              /\ InitialHealth(frame.level, c.id) <= Health(5)
              /\ c.healthAfter + c.contactFrames * Health(1)
                    <= InitialHealth(frame.level, c.id)
              /\ \A k \in 1..(i - 1) :
                    frame.contacts[k].id = c.id => frame.contacts[k].aliveAfter
    /\ \A i \in 1..Len(obstacles) :
          /\ obstacles[i].alive
          /\ obstacles[i].health > 0
          /\ obstacles[i].health + obstacles[i].contactFrames * Health(1)
                <= InitialHealth(currentLevel, obstacles[i].id)

\* C3 happens: an update in which one contact destroyed an obstacle and another
\* left its obstacle alive
C3_Witness ==
    /\ \E i \in 1..Len(frame.contacts) : ~frame.contacts[i].aliveAfter
    /\ \E i \in 1..Len(frame.contacts) :
          /\ frame.contacts[i].aliveAfter
          /\ frame.contacts[i].healthAfter = frame.contacts[i].healthBefore - Health(1)

\* C4.  In every update, for every launched bird: the fall-asleep branch takes
\* it only at speed below 8 and with more than 0.8 s spent in an unbroken run of
\* ground frames at speed below 12; a ground frame at speed 12 or more leaves its
\* rest time 0; an obstacle contact leaves its rest time 0 and the bird active.
C4_RestState ==
    \A i \in 1..Len(frame.birds) :
        LET t == frame.birds[i]
        IN  /\ t.asleep => t.sleepSpeed < Px(8) /\ t.runAfterMove > 800
            /\ (t.ground /\ t.groundSpeed >= Px(12)) => t.restAfterMove = 0
            /\ t.touched => t.restAfter = 0 /\ t.activeAfter

\* C4 happens: the fall-asleep branch took a bird
C4_Witness == \E i \in 1..Len(frame.birds) : frame.birds[i].asleep

AliveCount(ps) == Cardinality({i \in 1..Len(ps) : ps[i].alive})

\* the pigs of level n as buildLevel makes them: layout n mod 3, all alive
FreshPigs(n) ==
    [i \in 1..Len(Layouts[(n % 3) + 1].pigs) |->
        [x |-> Layouts[(n % 3) + 1].pigs[i].x, y |-> Layouts[(n % 3) + 1].pigs[i].y,
         r |-> Px(16), alive |-> TRUE]]

\* C5.  An update advances the level exactly if no pig is alive when it ends
\* (otherwise the level stays and a pig is alive); advancing makes currentLevel
\* exactly currentLevel + 1, loads the pigs of layout (currentLevel mod 3), all
\* alive, and that layout's obstacles, empties birds and particles, and leaves
\* the score at what the kills of this update made it (100 per pig that was
\* alive); the game-over title never becomes LEVEL CLEAR.
C5_LevelProgression ==
    /\ [](gameOverTitle # "LEVEL CLEAR")
    /\ [][op' = "loop" =>
            /\ (currentLevel' = currentLevel + 1) <=> ~frame'.pigsAliveAtCheck
            /\ currentLevel' = currentLevel => PigsAlive(pigs')
            /\ currentLevel' # currentLevel =>
                  /\ currentLevel' = currentLevel + 1
                  /\ pigs' = FreshPigs(currentLevel')
                  /\ Len(obstacles') = Len(Layouts[(currentLevel' % 3) + 1].obstacles)
                  /\ birds' = << >>
                  /\ particles' = {}
                  /\ frame'.before.particles # {}
                  /\ score' = frame'.before.score
                  /\ score' = score + 100 * AliveCount(pigs)]_vars

\* C5 happens: an update cleared level 2 and loaded level 3, which is layout 0
\* again
C5_Witness == op = "loop" /\ ~frame.pigsAliveAtCheck /\ currentLevel = 3

\* C6.  While the game-over screen shows, the game is stopped, a pig is alive,
\* no launched bird is active, birdsRemaining is 0 and the sling is empty.
C6_GameOverOnlyWhenSpent ==
    gameOverShown =>
        /\ ~isRunning
        /\ gameOverTitle = "GAME OVER"
        /\ PigsAlive(pigs)
        /\ \A i \in 1..Len(birds) : ~birds[i].active
        /\ birdsRemaining = 0
        /\ currentBird = NoBird

\* C6 happens: the game is over
C6_Witness == gameOverShown /\ op = "loop"

RECURSIVE PigsBefore(_)
\* the pigs of the levels below n
PigsBefore(n) ==
    IF n = 0 THEN 0 ELSE PigsBefore(n - 1) + Len(Layouts[((n - 1) % 3) + 1].pigs)

\* C7.  The score is 100 for every pig killed since the last start(): the pigs
\* of the levels cleared and the pigs of the current level that are not alive;
\* start() makes it 0 and nothing else lowers it.
C7_Score ==
    /\ [](score = 100 * (PigsBefore(currentLevel) + Len(pigs) - AliveCount(pigs)))
    /\ [][/\ op' \in {"startAngryGame", "resetAngryGame"} => score' = 0
          /\ op' \notin {"startAngryGame", "resetAngryGame"} => score' >= score]_vars

\* C7 happens: past the first level, with one pig of the level killed and
\* another alive while a bird is in flight
C7_Witness ==
    /\ currentLevel >= 1
    /\ PigsAlive(pigs) /\ AliveCount(pigs) < Len(pigs)
    /\ birds # << >>

\* the birds the player can still shoot
Available == birdsRemaining + (IF currentBird # NoBird THEN 1 ELSE 0)

\* C8 (as claimed; it fails).  An update that advances the level leaves the
\* player exactly 2 birds more than before, on the sling or remaining.
C8_RewardTwo ==
    [][(op' = "loop" /\ currentLevel' = currentLevel + 1) =>
          Available' = Available + 2]_vars

\* C9.  A release with a pull below 10 does not launch: the bird on the sling is
\* the same bird, back at the anchor; the pull distance is 0; isDragging is
\* false; birds, birdsRemaining and nextBirdTimer are unchanged.
C9_SnapBack ==
    [][(op' = "pointerUp" /\ isDragging /\ pull.dist < Px(10)) =>
          /\ currentBird # NoBird
          /\ currentBird' = [currentBird EXCEPT !.x = slingAnchor.x,
                                                 !.y = slingAnchor.y]
          /\ pull'.dist = 0
          /\ ~isDragging'
          /\ UNCHANGED << birds, birdsRemaining, nextBirdTimer >>]_vars

\* C9 happens: the bird was released less than 10 from the anchor (and not at
\* it) and is on the sling
C9_Witness ==
    /\ op = "pointerUp"
    /\ currentBird # NoBird
    /\ pointer # slingAnchor
    /\ Hypot(pointer.x - slingAnchor.x, pointer.y - slingAnchor.y) < Px(10)

\* C10.  The pull distance is between 0 and 250; the bird on the sling is at
\* most 250 from the anchor; while dragging it is (to within a pixel) at the
\* pull distance from the anchor towards the pointer; a bird is launched with
\* speed at most 1250.
C10_AimClamped ==
    /\ pull.dist >= 0 /\ pull.dist <= Px(250)
    /\ currentBird # NoBird =>
          Hypot(currentBird.x - slingAnchor.x, currentBird.y - slingAnchor.y) <= Px(250)
    /\ (isDragging /\ currentBird # NoBird) =>
          LET px == pointer.x - slingAnchor.x
              py == pointer.y - slingAnchor.y
              h == Hypot(px, py)
          IN  /\ pull.dist = Min(Px(250), h)
              /\ h > 0 =>
                    /\ Abs(currentBird.x - slingAnchor.x - Quot(px * pull.dist, h)) <= Px(1)
                    /\ Abs(currentBird.y - slingAnchor.y - Quot(py * pull.dist, h)) <= Px(1)
    /\ Launched =>
          Hypot(birds[Len(birds)].vx, birds[Len(birds)].vy) <= Px(1250)

\* C10 happens: a bird pulled beyond 250 was launched from the full pull
C10_Witness ==
    /\ Launched
    /\ Hypot(pointer.x - slingAnchor.x, pointer.y - slingAnchor.y) > Px(250)
    /\ pull.dist = Px(250)


\* the frame callbacks that got past their guard and updated their game
FrameOps == {"loop", "gameLoop", "Flappy.gameLoop"}

\* C11: showMainMenu stops every game.  Right after it returned, isGameStarted,
\* isGameOver, FlappyGame.isRunning, AngryLeliGame.isRunning, pendingAngryStart
\* and orientationBlocked are false and currentGame is null; and from then on,
\* as long as the player has chosen no game (currentGame is still null), no
\* frame callback of the three games gets past its guard.
C11_MenuStopsGames ==
    /\ [](op = "showMainMenu" =>
            /\ ~isGameStarted /\ ~isGameOver
            /\ ~flappy.isRunning /\ ~isRunning
            /\ currentGame = NULL
            /\ ~pendingAngryStart /\ ~orientationBlocked)
    /\ [][currentGame = NULL => op' \notin FrameOps]_vars


\* C12: the orientation lock.  In every state that menu clicks and resize and
\* orientationchange events reach, a restart through resetAngryGame included,
\* AngryLeliGame.isRunning is false while orientationBlocked is true.
C12_BlockedNotRunning == orientationBlocked => ~isRunning


\* the window's events that run handleOrientationChange
OrientationOps == {"resize", "orientationchange"}

Loads == op' = "loop" /\ currentBird = NoBird /\ currentBird' # NoBird

\* a bird as it lies on the sling: at the anchor, not launched, at rest
OnSling(b) ==
    /\ b.x = slingAnchor.x /\ b.y = slingAnchor.y
    /\ ~b.launched /\ b.vx = 0 /\ b.vy = 0

\* C14 as stated: an update loads a bird only after at least 0.5 s of frame time
\* since the launch and only if birdsRemaining > 0; it then takes exactly one
\* from birdsRemaining and puts the bird, not launched and at rest, at the sling
\* anchor; and with birdsRemaining = 0 no update loads a bird.
C14_NextBird ==
    [][Loads =>
         /\ sinceLaunch' >= nextBirdDelay
         /\ birdsRemaining > 0
         /\ birdsRemaining' = birdsRemaining - 1
         /\ OnSling(currentBird')]_vars


\* C14, amended: the same of every update that does not advance the level.
\* (advanceLevel loads a bird at once, whatever the time since the launch, after
\* raising birdsRemaining to at least 2.)
C14_NextBirdWithinLevel ==
    [][(Loads /\ currentLevel' = currentLevel) =>
         /\ sinceLaunch' >= nextBirdDelay
         /\ birdsRemaining > 0
         /\ birdsRemaining' = birdsRemaining - 1
         /\ OnSling(currentBird')]_vars

\* the second bird of the first level lies on the sling: handleNextBird loaded it
C14_Witness ==
    /\ op = "loop" /\ currentLevel = 0
    /\ currentBird # NoBird /\ OnSling(currentBird)
    /\ birdsRemaining = maxBirds - 2


\* the frame callback and the pointer handlers of AngryLeliGame, whether they
\* returned at their guard or ran
AngryOps == {"loop", "pointerDown", "pointerMove", "pointerUp", "return"}

\* C15: while the Angry game is not running (isRunning is false, or currentGame
\* is not 'angry') a frame callback and a pointer down, move, up or leave event
\* leave birds, pigs, obstacles, score, birdsRemaining, the bird on the sling,
\* the pull and isDragging as they are.
C15_StoppedIsFrozen ==
    [][((~isRunning \/ currentGame # "angry") /\ op' \in AngryOps) =>
         UNCHANGED << birds, pigs, obstacles, score, birdsRemaining, currentBird,
                      pull, isDragging >>]_vars

\* a handler returned at its guard while the stopped game held a pulled sling,
\* which a pointerup would have released
C15_Witness ==
    /\ op = "return" /\ ~isRunning /\ currentGame = "angry"
    /\ isDragging /\ currentBird # NoBird /\ ~snapsBack(pull.dist)


\* the obstacle with this id is in the obstacle list
Listed(id) == \E i \in 1..Len(obstacles) : obstacles[i].id = id

\* C16: at the end of every update that does not advance the level, every
\* obstacle in the obstacle list is alive with health > 0, and an obstacle that a
\* contact of this update destroyed is no longer in the list.
C16_ObstaclesAlive ==
    (op = "loop" /\ frame.level = currentLevel) =>
        /\ \A i \in 1..Len(obstacles) :
              obstacles[i].alive /\ obstacles[i].health > 0
        /\ \A k \in 1..Len(frame.contacts) :
              ~frame.contacts[k].aliveAfter => ~Listed(frame.contacts[k].id)

\* an update within a level in which a contact destroyed an obstacle while
\* other obstacles stay in the list
C16_Witness ==
    /\ op = "loop" /\ frame.level = currentLevel
    /\ \E k \in 1..Len(frame.contacts) :
          /\ ~frame.contacts[k].aliveAfter
          /\ frame.contacts[k].healthAfter <= 0
    /\ Len(obstacles) > 0


\* startGame() or resetGame() ran to its end and requested the frame callback
LeliStarts == {"startGameResumes", "resetGameResumes"}

\* C17: whenever startGame or resetGame has run to its end and the Leli loop it
\* requested gets past its guard (isGameStarted, not isGameOver), score is 0,
\* isGameOver is false and the projectile list is empty.
C17_CleanSession ==
    (op \in LeliStarts /\ ~gameLoopReturns(isGameOver, isGameStarted)) =>
        /\ leli.score = 0
        /\ ~isGameOver
        /\ leli.projectiles = << >>

====
